---- MODULE Spec2Model ----
(***************************************************************************)
(* Survey dashboards app.py and app2.py: one run of each script, from the  *)
(* loaded spreadsheet through the sidebar filters to the KPI cards and the *)
(* role x answer distributions.  A run starts by reading the spreadsheet   *)
(* file 'Combined- Cross Analysis.xlsx'.                                   *)
(*                                                                         *)
(* A cell of the table is a sequence.  A text cell is the sequence of its  *)
(* lexical tokens (words, with punctuation as tokens of its own), so that  *)
(* substring tests and comma splitting are computed and not assumed; a     *)
(* score cell is <<n>>; the missing value NaN is the empty sequence; the   *)
(* empty string is <<"">>.                                                  *)
(* A number that pandas yields is kept exact as [num, den]; den = 0 is the *)
(* float NaN.                                                              *)
(***************************************************************************)
EXTENDS Integers, Sequences, FiniteSets, TLC

VARIABLES script, xlsx, df_columns, df, pc, sel, filtered_df, cols, kpi, charts, err

vars == <<script, xlsx, df_columns, df, pc, sel, filtered_df, cols, kpi, charts, err>>

\* ------------------------------------------------------------ bounds
MaxRows == 2
MaxBandRows == 1

\* ------------------------------------------------------------ values
NaN == <<>>
EmptyStr == <<"">>
All == <<"All">>

isna(x) == x = NaN
notna(x) == x # NaN

Range(s) == {s[i] : i \in DOMAIN s}

RECURSIVE SumSeq(_)
SumSeq(s) == IF s = <<>> THEN 0 ELSE Head(s) + SumSeq(Tail(s))

Num(n, d) == [num |-> n, den |-> d]
Zero == Num(0, 1)
NaNValue == Num(0, 0)

\* ------------------------------------------------------------ strings
lower_table ==
  [w \in {"I", "Prefer", "Yes", "Extremely", "There", "Potential", "Mental"} |->
     CASE w = "I" -> "i"
       [] w = "Prefer" -> "prefer"
       [] w = "Yes" -> "yes"
       [] w = "Extremely" -> "extremely"
       [] w = "There" -> "there"
       [] w = "Potential" -> "potential"
       [] w = "Mental" -> "mental"]

lower_word(w) == IF w \in DOMAIN lower_table THEN lower_table[w] ELSE w

lower(text) == [i \in DOMAIN text |-> lower_word(text[i])]

\* `kw in text` / Series.str.contains(kw): kw occurs in text
str_in(kw, text) ==
  \E i \in 1..(Len(text) - Len(kw) + 1) : SubSeq(text, i, i + Len(kw) - 1) = kw

\* Series.str.contains(kw, case=False, na=False) on one cell
str_contains_nocase(cell, kw) == notna(cell) /\ str_in(lower(kw), lower(cell))

\* Series.astype(str) on one cell
astype_str(cell) == IF isna(cell) THEN <<"nan">> ELSE cell

\* Series.astype(str).str.contains(kw, na=False) on one cell
str_contains(cell, kw) == str_in(kw, astype_str(cell))

piece(cur) == IF cur = <<>> THEN EmptyStr ELSE cur

RECURSIVE split_from(_, _, _)
split_from(text, i, cur) ==
  IF i > Len(text) THEN <<piece(cur)>>
  ELSE IF text[i] = "," THEN <<piece(cur)>> \o split_from(text, i + 1, <<>>)
  ELSE split_from(text, i + 1, Append(cur, text[i]))

\* str.split(',')
str_split(text) == split_from(text, 1, <<>>)

is_space(w) == w \in {"", " "}

RECURSIVE lstrip(_)
lstrip(s) == IF s # <<>> /\ is_space(Head(s)) THEN lstrip(Tail(s)) ELSE s

RECURSIVE rstrip(_)
rstrip(s) ==
  IF s # <<>> /\ is_space(s[Len(s)]) THEN rstrip(SubSeq(s, 1, Len(s) - 1)) ELSE s

\* str.strip()
strip(s) == piece(rstrip(lstrip(s)))

\* ------------------------------------------------------------ columns
Row(role, eth, dis, wf, score, recog, growth) ==
  [Role |-> role, Ethnicity |-> eth, Disability |-> dis, Work_Fulfillment |-> wf,
   Recommendation_Score |-> score, Recognition |-> recog, Growth_Potential |-> growth]

column(t, c) == [i \in DOMAIN t |-> t[i][c]]

unique(s) == Range(s)

dropna(s) == SelectSeq(s, notna)

\* comparison of two cells as pandas compares them: NaN equals nothing
pd_eq(a, b) == notna(a) /\ notna(b) /\ a = b

score_ge(s, n) == notna(s) /\ s[1] >= n
score_le(s, n) == notna(s) /\ s[1] <= n

\* Series.mean(): over the values that are not missing, NaN when there is none
mean(s) == Num(SumSeq([i \in DOMAIN dropna(s) |-> dropna(s)[i][1]]), Len(dropna(s)))

\* ------------------------------------------------------------ vocabulary
\* roles (keys of role_mapping, and one role that is no key)
Relief == <<"Relief">>
CSW_Shelters == <<"CSW - Shelters">>
Supervisor_Shelters == <<"Supervisor (Shelters/Housing)">>
Other_Smaller == <<"Other (Smaller departments/teams not listed seperately in an effort to maintain confidentiality)">>
Janitor == <<"Janitor">>

Black == <<"Black">>
White == <<"White">>
\* multi-select answers: several values in one cell
Asian == <<"Asian">>
South_Asian == <<"South", " ", "Asian">>
Black_White == <<"Black", ",", " ", "White">>
Black_semi_White == <<"Black", ";", " ", "White">>
Black_comma == <<"Black", ",", " ">>

D_None == <<"I", "do", "not", "identify", "as", "an", "individual", "living", "with", "a", "disability">>
D_Prefer == <<"Prefer", "not", "to", "specify">>
D_Mental == <<"Mental", "health">>
D_Blank == <<" ">>

F_High == <<"I", "find", "the", "work", "I", "do", "extremely", "fulfilling", "and", "rewarding">>
F_Somewhat == <<"I", "find", "the", "work", "I", "do", "somewhat", "fulfilling", "and", "rewarding">>
F_NotExtremely == <<"I", "don't", "find", "the", "work", "I", "do", "extremely", "fulfilling">>
F_Garbled == <<"garbled", "OCR", "text">>

recog_order ==
  << <<"I", "don't", "feel", "recognized", "and", "acknowledged", "but", "I", "prefer", "it", "that", "way">>,
     <<"I", "don't", "feel", "recognized", "and", "acknowledged", "and", "would", "prefer", "staff", "successes", "to", "be", "highlighted">>,
     <<"I", "do", "find", "myself", "being", "recognized", "and", "acknowledged", ",", "but", "it's", "rare", "given", "the", "contributions", "I", "make">>,
     <<"I", "somewhat", "feel", "recognized", "and", "acknowledged">>,
     <<"Yes", ",", "I", "do", "feel", "recognized", "and", "acknowledged">> >>

growth_order ==
  << <<"I", "am", "not", "interested", "in", "career", "growth", "and", "prefer", "to", "remain", "in", "my", "current", "role">>,
     <<"Potential", "to", "grow", "seems", "limited", "at", "Homes", "First", "and", "I", "will", "likely", "need", "to", "advance", "my", "career", "with", "another", "organization">>,
     <<"There", "is", "very", "little", "potential", "to", "grow", "at", "Homes", "First">>,
     <<"There", "is", "some", "potential", "to", "grow", "and", "I", "hope", "to", "advance", "my", "career", "with", "Homes", "First">>,
     <<"Yes", ",", "I", "do", "feel", "there", "is", "potential", "to", "grow", "at", "Homes", "First">> >>

R_Yes == recog_order[5]
R_Somewhat == recog_order[4]
R_Garbled == <<"recognized", "sometimes">>
G_Yes == growth_order[5]
G_Little == growth_order[3]

\* ------------------------------------------------------------ helper functions (app.py)
get_score_band(score) ==
  IF score_le(score, 3) THEN "0-3"
  ELSE IF score_le(score, 6) THEN "4-6"
  ELSE IF score_le(score, 8) THEN "7-8"
  ELSE "9-10"

\* disability_text.lower() raises AttributeError on the float NaN
categorize_disability_raises(disability_text) == isna(disability_text)

categorize_disability(disability_text) ==
  IF str_in(<<"do", "not", "identify">>, lower(disability_text)) THEN "No Disability"
  ELSE IF str_in(<<"prefer", "not", "to", "specify">>, lower(disability_text))
       THEN "Prefer Not to Specify"
  ELSE "With Disability"

role_mapping ==
  (<<"Director/Assistant Director/Manager/Assistant Manager (HR/Finance/Property/Fundraising/Development)">>
      :> <<"Director/Manager (HR/Finance/Dev)">>)
  @@ (<<"Director/Assistant Director/Manager/Assistant Manager/Site Manager (Shelters/Housing)">>
      :> <<"Director/Manager (Shelters)">>)
  @@ (Supervisor_Shelters :> <<"Supervisor (Shelters)">>)
  @@ (<<"Supervisor (HR/Finance/Property/Fundraising/Development)">> :> <<"Supervisor (HR/Finance/Dev)">>)
  @@ (<<"ICM - Shelters (includes ICM, HHW, Community Engagement, ICM Health Standards, etc.)">>
      :> <<"ICM - Shelters">>)
  @@ (<<"Non-24 Hour Program (including ICM, follow-up supports and PSW)">> :> <<"Non-24 Hour Program">>)
  @@ (Other_Smaller :> <<"Other">>)
  @@ (<<"Prefer not to disclose/Other">> :> <<"Prefer not to disclose">>)
  @@ (CSW_Shelters :> <<"CSW - Shelters">>)
  @@ (Relief :> <<"Relief">>)

shorten_role(role) == IF role \in DOMAIN role_mapping THEN role_mapping[role] ELSE role

\* ------------------------------------------------------------ pandas tables
\* the labels of the vocabulary in the order of Python's string comparison
collation ==
  << EmptyStr, D_Blank, Asian, Black, Black_comma, Black_White, Black_semi_White,
     CSW_Shelters, growth_order[1], recog_order[3], D_None,
     recog_order[2], recog_order[1], F_NotExtremely, F_High, F_Somewhat, recog_order[4],
     Janitor, D_Mental, role_mapping[Other_Smaller], Other_Smaller, growth_order[2],
     D_Prefer, Relief, South_Asian, role_mapping[Supervisor_Shelters], Supervisor_Shelters,
     growth_order[4], growth_order[3], White, recog_order[5], growth_order[5],
     F_Garbled, astype_str(NaN), R_Garbled >>

\* sorted(labels)
sorted(labels) == SelectSeq(collation, LAMBDA x : x \in labels)

RECURSIVE sorted_ints(_)
sorted_ints(S) ==
  IF S = {} THEN <<>>
  ELSE LET m == CHOOSE x \in S : \A y \in S : x <= y
       IN <<m>> \o sorted_ints(S \ {m})

\* the values of a sequence in the order of their first appearance
RECURSIVE unique_seq(_)
unique_seq(s) ==
  IF s = <<>> THEN <<>>
  ELSE LET r == unique_seq(SubSeq(s, 1, Len(s) - 1))
       IN IF s[Len(s)] \in Range(r) THEN r ELSE Append(r, s[Len(s)])

head(s, n) == SubSeq(s, 1, IF Len(s) < n THEN Len(s) ELSE n)

\* x sorts before y, ascending / descending, NaN last
before_asc(x, y) ==
  \/ x.den > 0 /\ y.den = 0
  \/ x.den > 0 /\ y.den > 0 /\ x.num * y.den < y.num * x.den
before_desc(x, y) ==
  \/ x.den > 0 /\ y.den = 0
  \/ x.den > 0 /\ y.den > 0 /\ x.num * y.den > y.num * x.den

RECURSIVE insert_asc(_, _)
insert_asc(s, x) ==
  IF s = <<>> THEN <<x>>
  ELSE IF before_asc(x.key, Head(s).key) THEN <<x>> \o s
  ELSE <<Head(s)>> \o insert_asc(Tail(s), x)

RECURSIVE insert_desc(_, _)
insert_desc(s, x) ==
  IF s = <<>> THEN <<x>>
  ELSE IF before_desc(x.key, Head(s).key) THEN <<x>> \o s
  ELSE <<Head(s)>> \o insert_desc(Tail(s), x)

\* sort_values on records [label, key]: ties keep their order
RECURSIVE sort_values(_, _)
sort_values(s, ascending) ==
  IF s = <<>> THEN <<>>
  ELSE LET rest == sort_values(SubSeq(s, 1, Len(s) - 1), ascending)
       IN IF ascending THEN insert_asc(rest, s[Len(s)]) ELSE insert_desc(rest, s[Len(s)])

\* Series.value_counts(): the values that are not missing, most frequent first
value_counts(series) ==
  LET vals == dropna(series)
      firsts == unique_seq(vals)
  IN sort_values([i \in DOMAIN firsts |->
                    [label |-> firsts[i],
                     key |-> Num(Len(SelectSeq(vals, LAMBDA v : v = firsts[i])), 1)]],
                 FALSE)

labels_of(s) == [i \in DOMAIN s |-> s[i].label]
keys_of(s) == [i \in DOMAIN s |-> s[i].key]

\* df.groupby(by)[Recommendation_Score].mean(): groups in sorted order, NaN keys dropped.
\* t is a table of records [by, score]
groupby_mean(t) ==
  LET groups == sorted({t[i].by : i \in DOMAIN t} \ {NaN})
  IN [i \in DOMAIN groups |->
        [label |-> groups[i],
         key |-> mean(column(SelectSeq(t, LAMBDA r : r.by = groups[i]), "score"))]]

\* pd.crosstab(index, columns) on a table of records [g, c]: rows with a missing
\* g or c are not counted
crosstab(t) ==
  LET pairs == SelectSeq(t, LAMBDA p : notna(p.g) /\ notna(p.c))
      index == sorted({pairs[i].g : i \in DOMAIN pairs})
      columns == sorted({pairs[i].c : i \in DOMAIN pairs})
  IN [index |-> index, columns |-> columns,
      values |-> [i \in DOMAIN index |-> [j \in DOMAIN columns |->
                    Len(SelectSeq(pairs, LAMBDA p : p.g = index[i] /\ p.c = columns[j]))]]]

position(s, x) == CHOOSE j \in DOMAIN s : s[j] = x

\* frame[cols]
select_columns(ct, cs) ==
  [index |-> ct.index, columns |-> cs,
   values |-> [i \in DOMAIN ct.index |-> [j \in DOMAIN cs |->
                 ct.values[i][position(ct.columns, cs[j])]]]]

\* counts.div(counts.sum(axis=1), axis=0) * 100
div_by_row_sum(ct) ==
  [index |-> ct.index, columns |-> ct.columns,
   values |-> [i \in DOMAIN ct.index |-> [j \in DOMAIN ct.columns |->
                 Num(ct.values[i][j] * 100, SumSeq(ct.values[i]))]]]

\* pd.crosstab(index, columns, normalize='index') * 100
crosstab_normalize(t) == div_by_row_sum(crosstab(t))

\* frame.reindex(new_index): a label that is not in the frame gets a row of NaN
reindex(ct, new_index) ==
  [index |-> new_index, columns |-> ct.columns,
   values |-> [i \in DOMAIN new_index |->
                 IF new_index[i] \in Range(ct.index)
                 THEN ct.values[position(ct.index, new_index[i])]
                 ELSE [j \in DOMAIN ct.columns |-> NaNValue]]]

\* frame.sort_values(by=column j, ascending=True)
sort_rows_by(ct, j) ==
  LET order == sort_values([i \in DOMAIN ct.index |-> [label |-> i, key |-> ct.values[i][j]]],
                           TRUE)
  IN [index |-> [i \in DOMAIN order |-> ct.index[order[i].label]],
      columns |-> ct.columns,
      values |-> [i \in DOMAIN order |-> ct.values[order[i].label]]]

Chart(frame) == [kind |-> "chart", frame |-> frame]

\* ------------------------------------------------------------ spreadsheets
DefaultRow == Row(Relief, Black, D_None, F_High, <<9>>, R_Yes, G_Yes)

\* respondents that differ in role and ethnicity (no Relief respondent is White,
\* no CSW respondent is Black) and in score
ScoreRows ==
  {[DefaultRow EXCEPT !.Role = g[1], !.Ethnicity = g[2], !.Recommendation_Score = s] :
     g \in {<<Relief, Black>>, <<CSW_Shelters, White>>}, s \in {NaN, <<3>>, <<9>>}}

\* respondents that differ in score only: every score of the scale, one below it,
\* one above it, and none
BandRows ==
  {[DefaultRow EXCEPT !.Recommendation_Score = s] : s \in {NaN} \cup {<<n>> : n \in -1..11}}

\* respondents that differ in role and in the work fulfillment answer
FulfillmentRows ==
  {[DefaultRow EXCEPT !.Role = r, !.Work_Fulfillment = f] :
     r \in {Relief, Supervisor_Shelters}, f \in {F_High, F_NotExtremely, F_Garbled, NaN}}

\* respondents that differ in role and in the recognition answer
RecognitionRows ==
  {[DefaultRow EXCEPT !.Role = r, !.Recognition = c] :
     r \in {Relief, Supervisor_Shelters}, c \in {R_Yes, R_Somewhat, R_Garbled, NaN}}

\* respondents that differ in the disability answer / in the role
DisabilityRows ==
  {[DefaultRow EXCEPT !.Disability = d] : d \in {D_None, D_Prefer, D_Mental, D_Blank, EmptyStr, NaN}}

RoleRows ==
  {[DefaultRow EXCEPT !.Role = r] : r \in {Relief, Supervisor_Shelters, Other_Smaller, Janitor, NaN}}

\* respondents that differ in the multi-select ethnicity answer
EthnicityRows ==
  {[DefaultRow EXCEPT !.Ethnicity = e] :
     e \in {Black, Asian, South_Asian, Black_White, Black_semi_White, Black_comma, D_Blank, NaN}}

\* respondents whose recognition and growth answers sort differently by alphabet
\* and by recog_order / growth_order
OrderRows ==
  {[DefaultRow EXCEPT !.Recognition = c, !.Growth_Potential = g] :
     c \in {recog_order[1], recog_order[2], recog_order[3]},
     g \in {growth_order[3], growth_order[4]}}

Tables(rows, n) == UNION {[1..k -> rows] : k \in 0..n}

\* the seven question columns of the tables pd.read_excel may return
Spreadsheets ==
  Tables(ScoreRows, MaxRows) \cup Tables(BandRows, MaxBandRows)
    \cup Tables(FulfillmentRows, MaxRows) \cup Tables(RecognitionRows, MaxRows)
    \cup Tables(DisabilityRows, MaxRows) \cup Tables(RoleRows, MaxRows)
    \cup Tables(EthnicityRows, MaxRows) \cup Tables(OrderRows, MaxRows)

\* ------------------------------------------------------------ the spreadsheet file
\* the column names app2.py binds
role_col == "Select the role/department that best describes your current position at Homes First."
ethnicity_col == "Which racial or ethnic identity/identities best reflect you. (Select all that apply.)"
disability_col == "Do you identify as an individual living with a disability/disabilities and if so, what type of disability/disabilities do you have? (Select all that apply.)"
work_col == "How fulfilling and rewarding do you find your work?"
rec_col == "How likely are you to recommend Homes First as a good place to work?"
recog_col == "Do you feel you get acknowledged and recognized for your contribution  at work?"
growth_col == "Do you feel there is potential for growth at Homes First?"

\* the header of the survey export, in the order of its columns
survey_header ==
  <<role_col, ethnicity_col, disability_col, work_col, rec_col, recog_col, growth_col>>

\* the names app.py gives the columns, by position
canonical ==
  <<"Role", "Ethnicity", "Disability", "Work_Fulfillment", "Recommendation_Score",
    "Recognition", "Growth_Potential">>

\* headers of other files: one more column, one column less, other names
wide_header == Append(survey_header, "Comments")
short_header == SubSeq(survey_header, 1, 6)
renamed_header == canonical

Comment == <<"no", "comment">>

\* a sheet row: the cells of a respondent under a header, left to right
cells(r, header) ==
  [j \in DOMAIN header |-> IF j <= Len(canonical) THEN r[canonical[j]] ELSE Comment]

Sheet(header, t) ==
  [found |-> TRUE, header |-> header, rows |-> [i \in DOMAIN t |-> cells(t[i], header)]]

NoFile == [found |-> FALSE, header |-> <<>>, rows |-> <<>>]

\* what may lie at 'Combined- Cross Analysis.xlsx'
Files ==
  {NoFile} \cup {Sheet(survey_header, t) : t \in Spreadsheets}
    \cup {Sheet(h, t) : h \in {wide_header, short_header, renamed_header},
                        t \in Tables({DefaultRow}, MaxRows)}

\* ------------------------------------------------------------ state
no_error == [type |-> "none", at |-> "none"]
Pending == [kind |-> "pending"]
Info == [kind |-> "info"]

ChartNames ==
  {"rec_dist", "role_avg", "eth_avg", "recog_prop", "growth_prop", "recog_cross",
   "growth_cross", "heat_fulfillment", "heat_recognition", "heat_growth",
   "stacked_fulfillment", "grouped_recognition", "grouped_growth",
   "div_fulfillment", "div_recognition", "div_growth", "key_insights"}

Init ==
  /\ script \in {"app", "app2"}
  /\ xlsx \in Files
  /\ df_columns = <<>>
  /\ df = <<>>
  /\ pc = "load"
  /\ sel = [role |-> All, ethnicity |-> All, disability |-> All]
  /\ filtered_df = <<>>
  /\ cols = Pending
  /\ kpi = Pending
  /\ charts = [c \in ChartNames |-> Pending]
  /\ err = no_error

\* ------------------------------------------------------------ app2.py: exploded ethnicity
RECURSIVE explode(_)
\* one row per element of the list in ethnicity_split
explode(t) ==
  IF t = <<>> THEN <<>>
  ELSE [k \in DOMAIN Head(t).ethnicity_split |->
          [Head(t) EXCEPT !.ethnicity_split = Head(t).ethnicity_split[k]]]
       \o explode(Tail(t))

eth_exploded(t) ==
  LET assigned == [i \in DOMAIN t |->
                     [row |-> t[i], ethnicity_split |-> str_split(astype_str(t[i].Ethnicity))]]
      stripped == [i \in DOMAIN explode(assigned) |->
                     [explode(assigned)[i] EXCEPT !.ethnicity_split = strip(@)]]
  IN SelectSeq(stripped, LAMBDA r : r.ethnicity_split # EmptyStr)

\* ------------------------------------------------------------ total responses
\* an exploded row count taken for the number of responses
total_exploded == Len(eth_exploded(filtered_df))
total == Len(filtered_df)

\* ------------------------------------------------------------ load_data
\* df.columns = [...]: row i of the sheet under the names, by position
set_columns(rows, names) ==
  [i \in DOMAIN rows |-> [c \in Range(names) |-> rows[i][position(names, c)]]]

\* app.py load_data: a missing file and a header that has not seven columns raise
App_Load ==
  /\ script = "app" /\ pc = "load"
  /\ IF ~xlsx.found
     THEN /\ err' = [type |-> "FileNotFoundError", at |-> "load"]
          /\ pc' = "crashed"
          /\ UNCHANGED <<df_columns, df>>
     ELSE IF Len(xlsx.header) # Len(canonical)
     THEN /\ err' = [type |-> "ValueError", at |-> "load"]
          /\ pc' = "crashed"
          /\ UNCHANGED <<df_columns, df>>
     ELSE /\ df' = set_columns(xlsx.rows, canonical)
          /\ df_columns' = canonical
          /\ pc' = "sidebar"
          /\ UNCHANGED err
  /\ UNCHANGED <<script, xlsx, sel, filtered_df, cols, kpi, charts>>

\* df[name] for the names app2.py binds: the field of the table that holds the
\* column of that name, a column of NaN when the sheet has no such column (df[name]
\* then raises KeyError where it is evaluated)
read_excel(sheet) ==
  [i \in DOMAIN sheet.rows |->
     [c \in Range(canonical) |->
        IF survey_header[position(canonical, c)] \in Range(sheet.header)
        THEN sheet.rows[i][position(sheet.header, survey_header[position(canonical, c)])]
        ELSE NaN]]

\* load_data that swallows a missing file and goes on with an empty table
App2_Load_goes_on ==
  /\ script = "app2" /\ pc = "load"
  /\ IF ~xlsx.found
     THEN /\ err' = [type |-> "FileNotFoundError", at |-> "load"]
          /\ df' = <<>>
          /\ df_columns' = survey_header
          /\ pc' = "sidebar"
     ELSE /\ df' = read_excel(xlsx)
          /\ df_columns' = xlsx.header
          /\ pc' = "sidebar"
          /\ UNCHANGED err
  /\ UNCHANGED <<script, xlsx, sel, filtered_df, cols, kpi, charts>>

\* app2.py load_data inside try: a missing file is reported by st.error
App2_Load ==
  /\ script = "app2" /\ pc = "load"
  /\ IF ~xlsx.found
     THEN /\ err' = [type |-> "FileNotFoundError", at |-> "load"]
          /\ pc' = "error_shown"
          /\ UNCHANGED <<df_columns, df>>
     ELSE /\ df' = read_excel(xlsx)
          /\ df_columns' = xlsx.header
          /\ pc' = "sidebar"
          /\ UNCHANGED err
  /\ UNCHANGED <<script, xlsx, sel, filtered_df, cols, kpi, charts>>

\* df[name] raises KeyError
key_error(name) == name \notin Range(df_columns)

\* ------------------------------------------------------------ app2.py: sidebar filters
\* split_multi(series): the stripped, non-empty comma-separated values of a column
split_multi(series) ==
  {strip(e) : e \in UNION {Range(str_split(astype_str(c))) : c \in Range(dropna(series))}}
    \ {EmptyStr}

app2_filtered(t, selected_role, selected_ethnicity, selected_disability) ==
  LET by_role == IF selected_role # All
                 THEN SelectSeq(t, LAMBDA r : pd_eq(r.Role, selected_role)) ELSE t
      by_eth == IF selected_ethnicity # All
                THEN SelectSeq(by_role, LAMBDA r : str_contains(r.Ethnicity, selected_ethnicity))
                ELSE by_role
  IN IF selected_disability # All
     THEN SelectSeq(by_eth, LAMBDA r : str_contains(r.Disability, selected_disability))
     ELSE by_eth

App2_Sidebar ==
  /\ script = "app2" /\ pc = "sidebar"
  /\ IF key_error(role_col) \/ key_error(ethnicity_col) \/ key_error(disability_col)
     THEN /\ err' = [type |-> "KeyError", at |-> "sidebar"]
          /\ pc' = "error_shown"
          /\ UNCHANGED <<sel, filtered_df>>
     ELSE /\ \E selected_role \in {All} \cup unique(dropna(column(df, "Role"))),
                selected_ethnicity \in {All} \cup split_multi(column(df, "Ethnicity")),
                selected_disability \in {All} \cup split_multi(column(df, "Disability")) :
               /\ sel' = [role |-> selected_role, ethnicity |-> selected_ethnicity,
                          disability |-> selected_disability]
               /\ filtered_df' = app2_filtered(df, selected_role, selected_ethnicity,
                                               selected_disability)
          /\ pc' = "key_metrics"
          /\ UNCHANGED err
  /\ UNCHANGED <<script, xlsx, df_columns, df, cols, kpi, charts>>

\* ------------------------------------------------------------ app.py: sidebar filters
\* sorted() of a list that holds the float NaN beside strings raises TypeError
sorted_raises(values) == NaN \in values /\ Cardinality(values) > 1 

app_filtered(t, role_filter, ethnicity_filter, disability_filter) ==
  LET by_role == IF role_filter # All
                 THEN SelectSeq(t, LAMBDA r : pd_eq(r.Role, role_filter)) ELSE t
      by_eth == IF ethnicity_filter # All
                THEN SelectSeq(by_role, LAMBDA r : pd_eq(r.Ethnicity, ethnicity_filter))
                ELSE by_role
  IN IF disability_filter # All
     THEN SelectSeq(by_eth, LAMBDA r : pd_eq(r.Disability, disability_filter))
     ELSE by_eth

App_Sidebar ==
  /\ script = "app" /\ pc = "sidebar"
  /\ IF \E c \in {"Role", "Ethnicity", "Disability"} : sorted_raises(unique(column(df, c)))
     THEN /\ err' = [type |-> "TypeError", at |-> "sidebar"]
          /\ pc' = "crashed"
          /\ UNCHANGED <<sel, filtered_df>>
     ELSE /\ \E role_filter \in {All} \cup unique(column(df, "Role")),
                ethnicity_filter \in {All} \cup unique(column(df, "Ethnicity")),
                disability_filter \in {All} \cup unique(column(df, "Disability")) :
               /\ sel' = [role |-> role_filter, ethnicity |-> ethnicity_filter,
                          disability |-> disability_filter]
               /\ filtered_df' = app_filtered(df, role_filter, ethnicity_filter, disability_filter)
          /\ pc' = "derive"
          /\ UNCHANGED err
  /\ UNCHANGED <<script, xlsx, df_columns, df, cols, kpi, charts>>

\* ------------------------------------------------------------ numbers
Raised(type) == [raised |-> type]
is_raised(v) == "raised" \in DOMAIN v

\* n / d * 100 on Python ints: ZeroDivisionError when d is 0
div100(n, d) == IF d = 0 THEN Raised("ZeroDivisionError") ELSE Num(n * 100, d)

\* x > n for a number x that is not NaN
gt(x, n) == x.den > 0 /\ x.num > n * x.den

\* ------------------------------------------------------------ app2.py: key metrics
app2_avg_score(t) ==
  IF Len(t) > 0 THEN mean(column(t, "Recommendation_Score")) ELSE Zero

promoters_of_df(t) == Len(SelectSeq(df, LAMBDA r : score_ge(r.Recommendation_Score, 9)))
promoters(t) ==
  IF Len(t) > 0 THEN Len(SelectSeq(t, LAMBDA r : score_ge(r.Recommendation_Score, 9))) ELSE 0

detractors(t) ==
  IF Len(t) > 0 THEN Len(SelectSeq(t, LAMBDA r : score_le(r.Recommendation_Score, 6))) ELSE 0

nps(t) == IF Len(t) > 0 THEN div100(promoters(t) - detractors(t), Len(t)) ELSE Zero

nps_color(x) ==
  IF gt(x, 20) THEN "metric-card-green" ELSE IF gt(x, 0) THEN "metric-card-orange"
  ELSE "metric-card"

fulfilled(t) ==
  IF Len(t) > 0
  THEN Len(SelectSeq(t, LAMBDA r : str_contains_nocase(astype_str(r.Work_Fulfillment), <<"extremely">>)))
  ELSE 0

pct(t) == IF Len(t) > 0 THEN div100(fulfilled(t), Len(t)) ELSE Zero

App2_KeyMetrics ==
  /\ script = "app2" /\ pc = "key_metrics"
  /\ IF is_raised(nps(filtered_df)) \/ is_raised(pct(filtered_df))
     THEN /\ err' = [type |-> "ZeroDivisionError", at |-> "key_metrics"]
          /\ pc' = "error_shown"
          /\ UNCHANGED kpi
     ELSE /\ kpi' = [kind |-> "shown",
                     total |-> total,
                     avg_score |-> app2_avg_score(filtered_df),
                     promoters |-> promoters(filtered_df),
                     detractors |-> detractors(filtered_df),
                     nps |-> nps(filtered_df),
                     nps_color |-> nps_color(nps(filtered_df)),
                     fulfilled |-> fulfilled(filtered_df),
                     pct |-> pct(filtered_df)]
          /\ pc' = "rec_dist"
          /\ UNCHANGED err
  /\ UNCHANGED <<script, xlsx, df_columns, df, sel, filtered_df, cols, charts>>

\* ------------------------------------------------------------ app2.py: recommendation
any_notna(t, c) == \E i \in DOMAIN t : notna(t[i][c])

\* pd.cut(score, bins=[-1, 6, 8, 10]): a score outside the bins has no group
cut_group(score) ==
  IF score > -1 /\ score <= 6 THEN "Detractor (0-6)"
  ELSE IF score > 6 /\ score <= 8 THEN "Passive (7-8)"
  ELSE IF score > 8 /\ score <= 10 THEN "Promoter (9-10)"
  ELSE "NaN"

rec_dist(t) ==
  LET scores == dropna(column(t, "Recommendation_Score"))
      index == sorted_ints({scores[i][1] : i \in DOMAIN scores})
  IN [Score |-> index,
      Count |-> [i \in DOMAIN index |-> Len(SelectSeq(scores, LAMBDA v : v[1] = index[i]))],
      Group |-> [i \in DOMAIN index |-> cut_group(index[i])]]

App2_RecDist ==
  /\ script = "app2" /\ pc = "rec_dist"
  /\ charts' = [charts EXCEPT !["rec_dist"] =
                  IF total > 0 /\ any_notna(filtered_df, "Recommendation_Score")
                  THEN Chart(rec_dist(filtered_df)) ELSE Info]
  /\ pc' = "averages"
  /\ UNCHANGED <<script, xlsx, df_columns, df, sel, filtered_df, cols, kpi, err>>

role_avg(t) ==
  sort_values(groupby_mean([i \in DOMAIN t |->
                [by |-> t[i].Role, score |-> t[i].Recommendation_Score]]), TRUE)

eth_avg(t) ==
  sort_values(
    head(sort_values(groupby_mean([i \in DOMAIN eth_exploded(t) |->
                       [by |-> eth_exploded(t)[i].ethnicity_split,
                        score |-> eth_exploded(t)[i].row.Recommendation_Score]]), FALSE), 10),
    TRUE)

App2_Averages ==
  /\ script = "app2" /\ pc = "averages"
  /\ charts' = [charts EXCEPT
                  !["role_avg"] = IF total > 0 /\ any_notna(filtered_df, "Role")
                                  THEN Chart(role_avg(filtered_df)) ELSE Info,
                  !["eth_avg"] = IF total > 0 /\ any_notna(filtered_df, "Ethnicity")
                                 THEN Chart(eth_avg(filtered_df)) ELSE Info]
  /\ pc' = "stacked_bars"
  /\ UNCHANGED <<script, xlsx, df_columns, df, sel, filtered_df, cols, kpi, err>>

\* ------------------------------------------------------------ app2.py: recognition and growth
by_role(t, c) == [i \in DOMAIN t |-> [g |-> t[i].Role, c |-> t[i][c]]]

\* the known answers in their order, then the other answers
ordered_cols(order, columns) ==
  SelectSeq(order, LAMBDA c : c \in Range(columns))
    \o SelectSeq(columns, LAMBDA c : c \notin Range(order))

recog_cols(t) == ordered_cols(recog_order, crosstab(by_role(t, "Recognition")).columns)
growth_cols(t) == ordered_cols(growth_order, crosstab(by_role(t, "Growth_Potential")).columns)

recog_prop(t) ==
  div_by_row_sum(select_columns(crosstab(by_role(t, "Recognition")), recog_cols(t)))
growth_prop(t) ==
  div_by_row_sum(select_columns(crosstab(by_role(t, "Growth_Potential")), growth_cols(t)))

App2_StackedBars ==
  /\ script = "app2" /\ pc = "stacked_bars"
  /\ IF total > 0 /\ any_notna(filtered_df, "Role") /\ key_error(growth_col)
     THEN /\ charts' = [charts EXCEPT
                          !["recog_prop"] =
                             IF any_notna(filtered_df, "Recognition")
                             THEN Chart(recog_prop(filtered_df)) ELSE Info]
          /\ err' = [type |-> "KeyError", at |-> "stacked_bars"]
          /\ pc' = "error_shown"
     ELSE /\ charts' = [charts EXCEPT
                          !["recog_prop"] =
                             IF total > 0 /\ any_notna(filtered_df, "Role")
                                  /\ any_notna(filtered_df, "Recognition")
                             THEN Chart(recog_prop(filtered_df)) ELSE Info,
                          !["growth_prop"] =
                             IF total > 0 /\ any_notna(filtered_df, "Role")
                                  /\ any_notna(filtered_df, "Growth_Potential")
                             THEN Chart(growth_prop(filtered_df)) ELSE Info]
          /\ pc' = "heatmaps"
          /\ UNCHANGED err
  /\ UNCHANGED <<script, xlsx, df_columns, df, sel, filtered_df, cols, kpi>>

\* columns.intersection(cs): the columns that are in cs, in the order of the frame
columns_intersection(columns, cs) == SelectSeq(columns, LAMBDA c : c \in Range(cs))

recog_cross(t) ==
  LET ct == crosstab_normalize(by_role(t, "Recognition"))
  IN select_columns(ct, columns_intersection(ct.columns, recog_cols(t)))
growth_cross(t) ==
  LET ct == crosstab_normalize(by_role(t, "Growth_Potential"))
  IN select_columns(ct, columns_intersection(ct.columns, growth_cols(t)))

App2_Heatmaps ==
  /\ script = "app2" /\ pc = "heatmaps"
  /\ charts' = [charts EXCEPT
                  !["recog_cross"] =
                     IF total > 0 /\ any_notna(filtered_df, "Role")
                          /\ any_notna(filtered_df, "Recognition")
                     THEN Chart(recog_cross(filtered_df)) ELSE Info,
                  !["growth_cross"] =
                     IF total > 0 /\ any_notna(filtered_df, "Role")
                          /\ any_notna(filtered_df, "Growth_Potential")
                     THEN Chart(growth_cross(filtered_df)) ELSE Info]
  /\ pc' = "done"
  /\ UNCHANGED <<script, xlsx, df_columns, df, sel, filtered_df, cols, kpi, err>>

\* ------------------------------------------------------------ app.py: derived columns
App_Derive ==
  /\ script = "app" /\ pc = "derive"
  /\ IF \E i \in DOMAIN df : categorize_disability_raises(df[i].Disability)
     THEN /\ err' = [type |-> "AttributeError", at |-> "derive"]
          /\ pc' = "crashed"
          /\ UNCHANGED cols
     ELSE /\ cols' = [kind |-> "shown",
                      Disability_Category |->
                        [i \in DOMAIN filtered_df |-> categorize_disability(filtered_df[i].Disability)],
                      Score_Band |->
                        [i \in DOMAIN filtered_df |-> get_score_band(filtered_df[i].Recommendation_Score)]]
          /\ pc' = "kpi_cards"
          /\ UNCHANGED err
  /\ UNCHANGED <<script, xlsx, df_columns, df, sel, filtered_df, kpi, charts>>

\* ------------------------------------------------------------ app.py: KPI cards
app_avg_score(t) == mean(column(t, "Recommendation_Score"))

low_scores(t) == Len(SelectSeq(t, LAMBDA r : score_le(r.Recommendation_Score, 4)))
high_scores(t) == Len(SelectSeq(t, LAMBDA r : score_ge(r.Recommendation_Score, 8)))

extremely_fulfilling(t) ==
  Len(SelectSeq(t, LAMBDA r : str_contains_nocase(r.Work_Fulfillment, <<"extremely">>)))

\* Series.str raises AttributeError on a column of the spreadsheet that holds no
\* string: a column with rows and no answer is a float column
str_accessor_raises(c) == Len(df) > 0 /\ \A i \in DOMAIN df : isna(df[i][c])

pct_extremely(t) == IF Len(t) > 0 THEN div100(extremely_fulfilling(t), Len(t)) ELSE Zero

App_KpiCards ==
  /\ script = "app" /\ pc = "kpi_cards"
  /\ IF str_accessor_raises("Work_Fulfillment")
     THEN /\ err' = [type |-> "AttributeError", at |-> "kpi_cards"]
          /\ pc' = "crashed"
          /\ UNCHANGED kpi
     ELSE IF is_raised(pct_extremely(filtered_df))
     THEN /\ err' = [type |-> "ZeroDivisionError", at |-> "kpi_cards"]
          /\ pc' = "crashed"
          /\ UNCHANGED kpi
     ELSE /\ kpi' = [kind |-> "shown",
                     total |-> Len(filtered_df),
                     avg_score |-> app_avg_score(filtered_df),
                     low_scores |-> low_scores(filtered_df),
                     high_scores |-> high_scores(filtered_df),
                     extremely_fulfilling |-> extremely_fulfilling(filtered_df),
                     pct_extremely |-> pct_extremely(filtered_df)]
          /\ pc' = "tab2"
          /\ UNCHANGED err
  /\ UNCHANGED <<script, xlsx, df_columns, df, sel, filtered_df, cols, charts>>

\* ------------------------------------------------------------ app.py: sentiment heatmaps
\* the rows of the top n roles by number of responses, with Role_Short, as [g, c]
top_roles(t, n) == labels_of(head(value_counts(column(t, "Role")), n))

by_role_short(t, n, c) ==
  LET local == SelectSeq(t, LAMBDA r : r.Role \in Range(top_roles(t, n)))
  IN [i \in DOMAIN local |-> [g |-> shorten_role(local[i].Role), c |-> local[i][c]]]

positive_cols(columns) ==
  SelectSeq(columns, LAMBDA c : str_in(<<"extremely">>, lower(c)) \/ str_in(<<"yes">>, lower(c)))

create_sentiment_heatmap(t, question_col) ==
  LET cross_tab == crosstab_normalize(by_role_short(t, 8, question_col))
  IN IF positive_cols(cross_tab.columns) # <<>>
     THEN sort_rows_by(cross_tab, position(cross_tab.columns, positive_cols(cross_tab.columns)[1]))
     ELSE cross_tab

\* the Role_Short values of the rows that say 'extremely'
top_roles_positive(t) ==
  unique_seq([i \in DOMAIN SelectSeq(t, LAMBDA r : str_contains_nocase(r.Work_Fulfillment, <<"extremely">>)) |->
     shorten_role(SelectSeq(t, LAMBDA r : str_contains_nocase(r.Work_Fulfillment, <<"extremely">>))[i].Role)])

\* ", ".join(values) raises TypeError on a value that is the float NaN
join_raises(values) == NaN \in Range(values)

App_Tab2 ==
  /\ script = "app" /\ pc = "tab2"
  /\ cols' = [kind |-> "shown",
              Disability_Category |-> cols.Disability_Category,
              Score_Band |-> cols.Score_Band,
              Role_Short |-> [i \in DOMAIN filtered_df |-> shorten_role(filtered_df[i].Role)]]
  /\ charts' = [charts EXCEPT
                  !["heat_fulfillment"] = Chart(create_sentiment_heatmap(df, "Work_Fulfillment")),
                  !["heat_recognition"] = Chart(create_sentiment_heatmap(df, "Recognition")),
                  !["heat_growth"] = Chart(create_sentiment_heatmap(df, "Growth_Potential"))]
  /\ IF join_raises(top_roles_positive(filtered_df))
     THEN /\ err' = [type |-> "TypeError", at |-> "tab2"]
          /\ pc' = "crashed"
     ELSE /\ pc' = "tab3"
          /\ UNCHANGED err
  /\ UNCHANGED <<script, xlsx, df_columns, df, sel, filtered_df, kpi>>

\* ------------------------------------------------------------ app.py: cross-analysis
\* df_cross: the rows of the top 8 roles, with Role_Short
df_cross(t) ==
  LET local == SelectSeq(t, LAMBDA r : r.Role \in Range(top_roles(t, 8)))
  IN [i \in DOMAIN local |-> [row |-> local[i], Role_Short |-> shorten_role(local[i].Role)]]

\* the keyword lists of the three create_diverging_bar calls
fulfill_keywords ==
  [positive |-> << <<"extremely", "fulfilling">> >>,
   neutral |-> << <<"somewhat">>, <<"in", "some", "parts">> >>,
   negative |-> << <<"don't", "find", "the", "work">>, <<"taking", "steps", "to", "change">> >>]
recog_keywords ==
  [positive |-> << <<"Yes", ",", "I", "do", "feel", "recognized">> >>,
   neutral |-> << <<"somewhat">>, <<"rare">>, <<"prefer", "it", "that", "way">> >>,
   negative |-> << <<"don't", "feel", "recognized", "and", "would", "prefer">> >>]
growth_keywords ==
  [positive |-> << <<"Yes", ",", "I", "do", "feel", "there", "is", "potential">> >>,
   neutral |-> << <<"some", "potential">>,
                  <<"not", "interested", "in", "career", "growth">> >>,
   negative |-> << <<"limited">>, <<"very", "little">> >>]

\* str.contains('|'.join(keywords), case=False, na=False) on one cell
contains_any(cell, keywords) ==
  \E k \in DOMAIN keywords : str_contains_nocase(cell, keywords[k])

\* sum(role_subset[question_col].str.contains(...)) / total * 100
share(role_subset, question_col, keywords) ==
  Num(Len(SelectSeq(role_subset, LAMBDA x : contains_any(x.row[question_col], keywords))) * 100,
      Len(role_subset))

\* df_chart of create_diverging_bar: one row per Role_Short, in sorted order, with
\* the columns Positive, Neutral, Negative
create_diverging_bar(dfc, question_col, keywords) ==
  LET roles == sorted({dfc[i].Role_Short : i \in DOMAIN dfc})
  IN [index |-> roles,
      columns |-> <<"Positive", "Neutral", "Negative">>,
      values |-> [i \in DOMAIN roles |->
         LET role_subset == SelectSeq(dfc, LAMBDA x : x.Role_Short = roles[i])
         IN <<share(role_subset, question_col, keywords.positive),
              share(role_subset, question_col, keywords.neutral),
              share(role_subset, question_col, keywords.negative)>>]]

\* df_chart['Role'] on the frame of an empty role_data raises KeyError
diverging_raises(dfc) == dfc = <<>>

tail(s, n) == SubSeq(s, IF Len(s) < n THEN 1 ELSE Len(s) - n + 1, Len(s))

\* avg_scores: mean score per Role_Short, highest first
avg_scores(dfc) ==
  sort_values(groupby_mean([i \in DOMAIN dfc |->
                [by |-> dfc[i].Role_Short, score |-> dfc[i].row.Recommendation_Score]]), FALSE)

\* the two lists of the key insights
Insights(dfc) ==
  [kind |-> "insights",
   highest |-> labels_of(head(avg_scores(dfc), 3)),
   attention |-> labels_of(tail(avg_scores(dfc), 3))]

App_Tab3 ==
  /\ script = "app" /\ pc = "tab3"
  /\ IF diverging_raises(df_cross(df))
     THEN /\ err' = [type |-> "KeyError", at |-> "tab3"]
          /\ pc' = "crashed"
          /\ UNCHANGED charts
     ELSE IF str_accessor_raises("Recognition")
     THEN /\ charts' = [charts EXCEPT
                          !["div_fulfillment"] =
                             Chart(create_diverging_bar(df_cross(df), "Work_Fulfillment",
                                                        fulfill_keywords))]
          /\ err' = [type |-> "AttributeError", at |-> "tab3"]
          /\ pc' = "crashed"
     ELSE IF str_accessor_raises("Growth_Potential")
     THEN /\ charts' = [charts EXCEPT
                          !["div_fulfillment"] =
                             Chart(create_diverging_bar(df_cross(df), "Work_Fulfillment",
                                                        fulfill_keywords)),
                          !["div_recognition"] =
                             Chart(create_diverging_bar(df_cross(df), "Recognition",
                                                        recog_keywords))]
          /\ err' = [type |-> "AttributeError", at |-> "tab3"]
          /\ pc' = "crashed"
     ELSE /\ charts' = [charts EXCEPT
                          !["div_fulfillment"] =
                             Chart(create_diverging_bar(df_cross(df), "Work_Fulfillment",
                                                        fulfill_keywords)),
                          !["div_recognition"] =
                             Chart(create_diverging_bar(df_cross(df), "Recognition",
                                                        recog_keywords)),
                          !["div_growth"] =
                             Chart(create_diverging_bar(df_cross(df), "Growth_Potential",
                                                        growth_keywords)),
                          !["key_insights"] = Insights(df_cross(df))]
          /\ pc' = "charts"
          /\ UNCHANGED err
  /\ UNCHANGED <<script, xlsx, df_columns, df, sel, filtered_df, cols, kpi>>

\* ------------------------------------------------------------ app.py: response distribution
create_stacked_bar(t, value_col) ==
  reindex(crosstab_normalize(by_role_short(t, 8, value_col)),
          [i \in DOMAIN top_roles(t, 8) |-> shorten_role(top_roles(t, 8)[i])])

create_grouped_bar(t, value_col) == crosstab_normalize(by_role_short(t, 6, value_col))

App_Charts ==
  /\ script = "app" /\ pc = "charts"
  /\ charts' = [charts EXCEPT
                  !["stacked_fulfillment"] = Chart(create_stacked_bar(df, "Work_Fulfillment")),
                  !["grouped_recognition"] = Chart(create_grouped_bar(df, "Recognition")),
                  !["grouped_growth"] = Chart(create_grouped_bar(df, "Growth_Potential"))]
  /\ IF join_raises(top_roles_positive(filtered_df))
     THEN /\ err' = [type |-> "TypeError", at |-> "charts"]
          /\ pc' = "crashed"
     ELSE /\ pc' = "done"
          /\ UNCHANGED err
  /\ UNCHANGED <<script, xlsx, df_columns, df, sel, filtered_df, cols, kpi>>

\* ------------------------------------------------------------ the run
Next ==
  \/ App_Load \/ App2_Load
  \/ App2_Sidebar \/ App2_KeyMetrics \/ App2_RecDist \/ App2_Averages
  \/ App2_StackedBars \/ App2_Heatmaps
  \/ App_Sidebar \/ App_Derive \/ App_KpiCards \/ App_Tab2 \/ App_Tab3 \/ App_Charts

Spec == Init /\ [][Next]_vars

\* ------------------------------------------------------------ claims
Bands == {"0-3", "4-6", "7-8", "9-10"}

scored(t) == SelectSeq(t, LAMBDA r : notna(r.Recommendation_Score))
in_range(s) == notna(s) /\ s[1] >= 0 /\ s[1] <= 10

same_number(a, b) ==
  \/ a.den = 0 /\ b.den = 0
  \/ a.den > 0 /\ b.den > 0 /\ a.num * b.den = b.num * a.den

undefined(x) == x.den = 0

\* C1: on a filtered table with at least one row the NPS card is (share of scores
\* >= 9 minus share of scores <= 6) * 100, the shares taken over the scored rows.
C1_NpsOverScoredRows ==
  (script = "app2" /\ kpi.kind = "shown" /\ total > 0) =>
     kpi.nps.num * Len(scored(filtered_df))
       = (Len(SelectSeq(filtered_df, LAMBDA r : score_ge(r.Recommendation_Score, 9)))
            - Len(SelectSeq(filtered_df, LAMBDA r : score_le(r.Recommendation_Score, 6))))
         * 100 * kpi.nps.den

\* C2: for every table, filter selection and score values (missing ones included)
\* the NPS shown is a number in [-100, 100].
C2_NpsBounds ==
  (script = "app2" /\ kpi.kind = "shown") =>
     /\ kpi.nps.den > 0
     /\ kpi.nps.num <= 100 * kpi.nps.den
     /\ kpi.nps.num >= -100 * kpi.nps.den

\* C2 witness: a role is selected, the filtered table is smaller than the
\* spreadsheet and holds only detractors, and the NPS card shows the bound -100.
C2_Witness ==
  /\ script = "app2" /\ kpi.kind = "shown" /\ sel.role # All
  /\ total > 0 /\ Len(df) > total
  /\ kpi.detractors = total
  /\ same_number(kpi.nps, Num(-100, 1))

\* C3: on a filtered table with zero rows the summary reports count 0 and the mean,
\* the NPS and the percentage KPIs as undefined, not as the number 0.
C3_EmptySummaryUndefined ==
  (kpi.kind = "shown" /\ total = 0) =>
     /\ kpi.total = 0
     /\ undefined(kpi.avg_score)
     /\ script = "app2" => undefined(kpi.nps) /\ undefined(kpi.pct)
     /\ script = "app" => undefined(kpi.pct_extremely)

AggregationStages ==
  {"key_metrics", "rec_dist", "averages", "stacked_bars", "heatmaps", "kpi_cards", "tab2", "tab3",
   "charts"}
FilteredCharts ==
  {"rec_dist", "role_avg", "eth_avg", "recog_prop", "growth_prop", "recog_cross", "growth_cross"}

\* C4: when the filter selection leaves zero rows, no aggregation step raises, the
\* KPI cards report zero responses and every chart of the filtered table is replaced
\* by its 'no data' message.
C4_EmptyTableNoRaise ==
  (total = 0 /\ pc # "sidebar") =>
     /\ err.at \notin AggregationStages
     /\ kpi.kind = "shown" => kpi.total = 0
     /\ \A c \in FilteredCharts : charts[c].kind \in {"pending", "info"}
     /\ pc = "done" /\ script = "app2" => \A c \in FilteredCharts : charts[c].kind = "info"

DistributionCharts ==
  {"recog_prop", "growth_prop", "recog_cross", "growth_cross", "heat_fulfillment",
   "heat_recognition", "heat_growth", "stacked_fulfillment", "grouped_recognition",
   "grouped_growth"}

sums_to_100(row) ==
  /\ Len(row) > 0
  /\ \A j \in DOMAIN row : row[j].den = row[1].den /\ row[j].den > 0
  /\ SumSeq([j \in DOMAIN row |-> row[j].num]) = 100 * row[1].den

\* C5: in every row-normalized role x answer cross-tabulation, the percentages of
\* every group emitted sum to 100.
C5_RowsSumTo100 ==
  \A c \in DistributionCharts :
     charts[c].kind = "chart" =>
        \A i \in DOMAIN charts[c].frame.index : sums_to_100(charts[c].frame.values[i])

\* C6: a distribution holds no group with zero counted rows: every group row emitted
\* has at least one counted response.
C6_NoEmptyGroup ==
  \A c \in DistributionCharts :
     charts[c].kind = "chart" =>
        \A i \in DOMAIN charts[c].frame.index :
           \E j \in DOMAIN charts[c].frame.values[i] :
              charts[c].frame.values[i][j].den > 0 /\ charts[c].frame.values[i][j].num > 0

DisabilityLabels == {"No Disability", "Prefer Not to Specify", "With Disability"}
RoleLabels == {role_mapping[k] : k \in DOMAIN role_mapping}

\* C7: category mapping is total: on every input, missing and unrecognized ones
\* included, categorize_disability and shorten_role return a label of their fixed
\* label set and never raise.
C7_MappingTotal ==
  /\ err.type # "AttributeError"
  /\ (script = "app" /\ cols.kind = "shown") =>
        \A i \in DOMAIN cols.Disability_Category : cols.Disability_Category[i] \in DisabilityLabels
  /\ (script = "app" /\ pc \in {"charts", "done"}) =>
        \A i \in DOMAIN cols.Role_Short : cols.Role_Short[i] \in RoleLabels

\* C8: a fulfillment answer is counted as highly fulfilled only when it equals the
\* known full-sentence answer; text that merely contains 'extremely' is not counted.
C8_ExactLookupOnly ==
  kpi.kind = "shown" =>
     /\ script = "app2" =>
          kpi.fulfilled = Len(SelectSeq(filtered_df, LAMBDA r : r.Work_Fulfillment = F_High))
     /\ script = "app" =>
          kpi.extremely_fulfilling
            = Len(SelectSeq(filtered_df, LAMBDA r : r.Work_Fulfillment = F_High))

band_of(n) ==
  CASE n \in 0..3 -> "0-3" [] n \in 4..6 -> "4-6" [] n \in 7..8 -> "7-8" [] n \in 9..10 -> "9-10"

\* C9: Score_Band of a row with score s in 0..10 is the band whose range holds s,
\* and a row with no score has no band.
C9_ScoreBand ==
  (script = "app" /\ cols.kind = "shown") =>
     \A i \in DOMAIN filtered_df :
        /\ in_range(filtered_df[i].Recommendation_Score) =>
              cols.Score_Band[i] = band_of(filtered_df[i].Recommendation_Score[1])
        /\ isna(filtered_df[i].Recommendation_Score) => cols.Score_Band[i] \notin Bands

\* C10: a score outside [0, 10] is treated as missing: it is left out of the mean and
\* of the promoter and detractor counts, and it gets no band.
C10_OutOfRangeIsMissing ==
  /\ (script = "app2" /\ kpi.kind = "shown" /\ total > 0) =>
        /\ kpi.promoters = Len(SelectSeq(filtered_df, LAMBDA r :
                                 in_range(r.Recommendation_Score) /\ r.Recommendation_Score[1] >= 9))
        /\ kpi.detractors = Len(SelectSeq(filtered_df, LAMBDA r :
                                  in_range(r.Recommendation_Score) /\ r.Recommendation_Score[1] <= 6))
        /\ same_number(kpi.avg_score,
                       mean(column(SelectSeq(filtered_df, LAMBDA r : in_range(r.Recommendation_Score)),
                                   "Recommendation_Score")))
  /\ (script = "app" /\ cols.kind = "shown") =>
        \A i \in DOMAIN filtered_df :
           (notna(filtered_df[i].Recommendation_Score) /\ ~in_range(filtered_df[i].Recommendation_Score))
              => cols.Score_Band[i] \notin Bands

\* the values of a multi-select cell: split on ',' and ';', trimmed, empty ones dropped
RECURSIVE split_on(_, _, _, _)
split_on(text, i, cur, delimiters) ==
  IF i > Len(text) THEN <<piece(cur)>>
  ELSE IF text[i] \in delimiters THEN <<piece(cur)>> \o split_on(text, i + 1, <<>>, delimiters)
  ELSE split_on(text, i + 1, Append(cur, text[i]), delimiters)

tokens(cell, delimiters) ==
  IF isna(cell) THEN <<>>
  ELSE SelectSeq([k \in DOMAIN split_on(cell, 1, <<>>, delimiters) |->
                    strip(split_on(cell, 1, <<>>, delimiters)[k])],
                 LAMBDA e : e # EmptyStr)

\* the exploded rows of respondent r, and how often r is in the table
exploded_of(t, r) == SelectSeq(eth_exploded(t), LAMBDA e : e.row = r)
copies(t, r) == Len(SelectSeq(t, LAMBDA x : x = r))

exploded_built == script = "app2" /\ charts["eth_avg"].kind = "chart"

\* C11: the exploded ethnicity table holds, for every respondent with a non-empty
\* value, exactly one row per value of the cell split on comma and/or semicolon,
\* trimmed, and the other fields of the row are those of the respondent.
C11_ExplodeOnePerToken ==
  exploded_built =>
     \A i \in DOMAIN filtered_df :
        LET r == filtered_df[i]
            values == tokens(r.Ethnicity, {",", ";"})
        IN values # <<>> =>
             /\ Len(exploded_of(filtered_df, r)) = copies(filtered_df, r) * Len(values)
             /\ \A k \in DOMAIN values :
                   \E j \in DOMAIN exploded_of(filtered_df, r) :
                      exploded_of(filtered_df, r)[j].ethnicity_split = values[k]

Sentinels == {<<"Unknown">>, <<"No", " ", "response">>}

\* C12: every respondent of the filtered table is in the exploded table, and one
\* whose cell has no non-empty value is there as exactly one row that holds the
\* Unknown / No response sentinel.
C12_SentinelRow ==
  exploded_built =>
     \A i \in DOMAIN filtered_df :
        LET r == filtered_df[i]
        IN /\ exploded_of(filtered_df, r) # <<>>
           /\ tokens(r.Ethnicity, {",", ";"}) = <<>> =>
                 /\ Len(exploded_of(filtered_df, r)) = copies(filtered_df, r)
                 /\ \A j \in DOMAIN exploded_of(filtered_df, r) :
                       exploded_of(filtered_df, r)[j].ethnicity_split \in Sentinels

\* C13: the Total Responses card shows the number of rows of the filtered,
\* un-exploded table, before and after the exploded ethnicity table is built.
C13_TotalIsRespondents ==
  kpi.kind = "shown" => kpi.total = Len(filtered_df)

\* C13 witness: the run is over, the exploded table has more rows than the filtered
\* table has respondents, and the card shows the number of respondents.
C13_Witness ==
  /\ exploded_built /\ pc = "done"
  /\ Len(eth_exploded(filtered_df)) > Len(filtered_df)
  /\ kpi.kind = "shown" /\ kpi.total = Len(filtered_df)

\* C14: positional schema mapping succeeds on every sheet that has at least the
\* seven columns, and gives a table of exactly the seven canonical fields whose
\* cells are the cells of the sheet, by position.
C14_PositionalMapping ==
  (script = "app" /\ pc # "load" /\ xlsx.found /\ Len(xlsx.header) >= Len(canonical)) =>
     /\ err.at # "load"
     /\ df_columns = canonical
     /\ Len(df) = Len(xlsx.rows)
     /\ \A i \in DOMAIN df :
           /\ DOMAIN df[i] = Range(canonical)
           /\ \A j \in DOMAIN canonical : df[i][canonical[j]] = xlsx.rows[i][j]

binding_failed == err.type \in {"FileNotFoundError", "ValueError", "KeyError"}

nothing_shown == kpi = Pending /\ \A c \in ChartNames : charts[c] = Pending

\* C15: when the load of the spreadsheet or the binding of a column fails, the run
\* is over: the error is reported, a failed load leaves no table, no selection and
\* nothing rendered, and no stage, the load included, takes a step afterwards.
C15_TerminalError ==
  /\ [](binding_failed =>
          /\ pc \in {"error_shown", "crashed"}
          /\ err.at = "load" => df = <<>> /\ filtered_df = <<>> /\ nothing_shown
          /\ err.at = "sidebar" => filtered_df = <<>> /\ nothing_shown)
  /\ [][binding_failed => UNCHANGED vars]_vars

\* C15 witness: the file is missing, app2.py has reported it and nothing is rendered.
C15_Witness ==
  /\ script = "app2" /\ ~xlsx.found
  /\ err = [type |-> "FileNotFoundError", at |-> "load"]
  /\ pc = "error_shown" /\ nothing_shown

\* C18: the selection is applied before every aggregation: each role shown in a
\* role x answer figure of a run is the role of a row of the filtered table.
C18_FiltersBeforeAggregation ==
  \A c \in DistributionCharts :
     charts[c].kind = "chart" =>
        \A i \in DOMAIN charts[c].frame.index :
           \E j \in DOMAIN filtered_df :
              charts[c].frame.index[i] \in {filtered_df[j].Role, shorten_role(filtered_df[j].Role)}

\* C19: the heatmap of recognition (of growth) by role lists its answer columns in
\* the order of the stacked bar of the same run, which is the order of recog_cols
\* (growth_cols): the known answers from negative to positive, then the others.
C19_HeatmapColumnOrder ==
  script = "app2" =>
     /\ charts["recog_cross"].kind = "chart" =>
           /\ charts["recog_cross"].frame.columns = charts["recog_prop"].frame.columns
           /\ charts["recog_cross"].frame.columns = recog_cols(filtered_df)
     /\ charts["growth_cross"].kind = "chart" =>
           /\ charts["growth_cross"].frame.columns = charts["growth_prop"].frame.columns
           /\ charts["growth_cross"].frame.columns = growth_cols(filtered_df)

has_token(cell, E) == \E k \in DOMAIN tokens(cell, {","}) : tokens(cell, {","})[k] = E

\* C20: after an ethnicity or a disability value E other than 'All' is selected, the
\* filtered table holds exactly the rows that have E among the comma-separated,
\* trimmed values of the cell (and the selected role, when one is selected).
C20_TokenFilter ==
  (script = "app2" /\ pc \notin {"load", "sidebar"} /\ err.at # "sidebar") =>
     filtered_df =
       SelectSeq(df, LAMBDA r :
          /\ sel.role # All => pd_eq(r.Role, sel.role)
          /\ sel.ethnicity # All => has_token(r.Ethnicity, sel.ethnicity)
          /\ sel.disability # All => has_token(r.Disability, sel.disability))

\* the diverging bars of the questions whose closed answer vocabulary the source lists
DivergingQuestions ==
  [div_recognition |-> [column |-> "Recognition", vocabulary |-> Range(recog_order)],
   div_growth |-> [column |-> "Growth_Potential", vocabulary |-> Range(growth_order)]]

\* the answers of a role in the table of the top roles
answers_of(role_short, c) ==
  {df_cross(df)[k].row[c] : k \in {k \in DOMAIN df_cross(df) :
                                      df_cross(df)[k].Role_Short = role_short}} \ {NaN}

\* C21: in a diverging bar, every answer of the closed vocabulary of the question is
\* counted in exactly one of Positive, Neutral and Negative, so for every role with
\* at least one answered row the three percentages sum to 100.
C21_BucketsSumTo100 ==
  \A c \in DOMAIN DivergingQuestions :
     charts[c].kind = "chart" =>
        \A i \in DOMAIN charts[c].frame.index :
           LET answers == answers_of(charts[c].frame.index[i], DivergingQuestions[c].column)
           IN (answers # {} /\ answers \subseteq DivergingQuestions[c].vocabulary) =>
                 sums_to_100(charts[c].frame.values[i])

\* C22: no role is listed both under 'Highest Satisfaction Roles' and under 'Areas
\* Needing Attention', for any number of roles in the data.
C22_TopBottomDisjoint ==
  charts["key_insights"].kind = "insights" =>
     Range(charts["key_insights"].highest) \cap Range(charts["key_insights"].attention) = {}

====
